---- MODULE Spec2Model ----
(***************************************************************************)
(* Session lifecycle of the agent (cmd/agent/app/session.go): the closing  *)
(* watcher and the idle ticker spawned by Session.Run, Session.Cancel,     *)
(* Session.Connect / addConnection and the connection watcher tasks.       *)
(* Every goroutine is a process with a program counter; one action is one  *)
(* step between two points where another goroutine can interleave.         *)
(***************************************************************************)
EXTENDS Naturals, Sequences, FiniteSets

(* ---- bounds of the model ---- *)
MaxCalls == 2        \* Connect calls made in one behaviour

ProcOrder == <<"p1", "p2">>   \* concurrent callers of Session.Connect
Procs == {ProcOrder[i] : i \in 1..Len(ProcOrder)}
ConnOrder == <<"c1", "c2">>   \* connectionData.Id values
ConnIds == {ConnOrder[i] : i \in 1..Len(ConnOrder)}
ExitCodes == {0}             \* exit statuses a Connection delivers
NoProc == "free"             \* the mutex of session.closed is free
NoConn == "none"             \* a caller with no call in flight

VARIABLES
  Persistent,          \* Session.Persistent (immutable)
  closed,              \* session.closed (value of the ConcurrentVariable)
  closedLock,          \* holder of the mutex of session.closed, or NoProc
  connections,         \* keys of session.connections
  ccClosed,            \* close(session.connectionsChanged) has run
  scClosed,            \* close(session.sessionClosing) has run
  tmCancelled,         \* session.taskManager.Cancel() has run
  cancelledBy,         \* the caller of Cancel() that cancelled the task manager first
  groupDone,           \* the parent scope (group.Ctx()) is cancelled
  closePc,             \* position of the closing watcher task
  waitErr,             \* err returned by session.taskManager.Wait()
  closeRet,            \* value returned by the closing watcher
  tickerPc,            \* position of the idle ticker task
  tickerArmed,         \* the time.Ticker is running
  tickerC,             \* a tick is waiting in ticker.C
  tickStale,           \* that tick was delivered before the last Reset or Stop
  connPc,              \* position of each Connect caller
  connArg,             \* connectionData.Id of each caller's call in flight
  connAt,              \* the task manager was cancelled when the call in flight started
  connRes,             \* result of each caller's last call
  watchers,            \* the connection watcher tasks spawned by addConnection
  lateSpawn,           \* a watcher was spawned when the task manager was done
  released,            \* number of calls of session.gpus.Release()
  sessionClosedEv,     \* number of SessionClosed events
  calls                \* Connect calls made so far

vars == <<Persistent, closed, closedLock, connections, ccClosed, scClosed,
          tmCancelled, cancelledBy, groupDone, closePc, waitErr, closeRet,
          tickerPc, tickerArmed, tickerC, tickStale, connPc, connArg, connAt, connRes,
          watchers, lateSpawn, released, sessionClosedEv, calls>>

sessionVars == <<Persistent, closed, closedLock, connections, ccClosed, scClosed,
                 tmCancelled, cancelledBy, groupDone>>
closeVars == <<closePc, waitErr, closeRet, released, sessionClosedEv>>
tickerVars == <<tickerPc, tickerArmed, tickerC, tickStale>>
connVars == <<connPc, connArg, connAt, connRes, calls, lateSpawn>>

(* ---- helpers ---- *)

\* task.NewTaskManager(ctx): the session's scope is nested under the parent's,
\* so its Done() fires on its own Cancel() or on the parent's cancellation.
TaskManagerDone == tmCancelled \/ groupDone

\* utilities.With / WithReturn / Set on session.closed run one accessor at a
\* time: an accessor enters only when no other is inside.
MutexFree == closedLock = NoProc

\* The watcher tasks registered in session.taskManager that have not returned.
RunningWatchers == {i \in 1..Len(watchers) : watchers[i].pc # "done"}

\* taskManager.Wait() may return: every spawned unit has returned.
WaitMayReturn == RunningWatchers = {}

\* Mutant of CancelBody: Cancel never reaches session.taskManager.Cancel().
CancelBodyNoCancel(value) == [closed |-> value, cancel |-> FALSE]

\* Mutant of CancelBody: the critical section writes the zero value back.
CancelBodyClears(value) == [closed |-> FALSE, cancel |-> ~value]

\* The body of Session.Cancel under the lock: the flag is left as it is and
\* the task manager is cancelled when the flag is still false.
CancelBody(value) == [closed |-> value, cancel |-> ~value]

\* Session.Cancel called by who: the caller whose Cancel() reached
\* session.taskManager.Cancel() first.
FirstCanceller(who) ==
  IF CancelBody(closed).cancel /\ cancelledBy = "none" THEN who ELSE cancelledBy

\* Mutant of ConnectRejects: Connect does not test the flag.
ConnectNeverRejects(value) == FALSE

\* Session.Connect's test of the flag: TRUE when the call is rejected.
ConnectRejects(value) == value

\* time.Ticker.Stop / Reset: a tick already delivered to ticker.C may stay in
\* the channel (timers before Go 1.23) or be discarded (Go 1.23 and later).
TickAfterStop(pending) == IF pending THEN {TRUE, FALSE} ELSE {FALSE}

\* The session after newSession and Run: both tasks of Run are spawned, the
\* closing watcher waits in its select and the idle ticker, which only a
\* non-persistent session has, has created its ticker and waits in its select.
Init ==
  /\ Persistent \in BOOLEAN
  /\ closed = FALSE
  /\ MutexFree
  /\ connections = {}
  /\ ccClosed = FALSE
  /\ scClosed = FALSE
  /\ tmCancelled = FALSE
  /\ cancelledBy = "none"
  /\ groupDone = FALSE
  /\ closePc = "select"
  /\ waitErr = "none"
  /\ closeRet = "none"
  /\ tickerPc = IF Persistent THEN "absent" ELSE "select"
  /\ tickerArmed = ~Persistent
  /\ tickerC = FALSE
  /\ tickStale = FALSE
  /\ connPc = [p \in Procs |-> "idle"]
  /\ connArg = [p \in Procs |-> NoConn]
  /\ connAt = [p \in Procs |-> FALSE]
  /\ connRes = [p \in Procs |-> "none"]
  /\ watchers = <<>>
  /\ lateSpawn = FALSE
  /\ released = 0
  /\ sessionClosedEv = 0
  /\ calls = 0

(* ---- the environment: parent scope and routing layer ---- *)

\* The parent supervisor cancels group.Ctx().
ParentCancel ==
  /\ ~groupDone
  /\ groupDone' = TRUE
  /\ UNCHANGED <<Persistent, closed, closedLock, connections, ccClosed, scClosed,
                 tmCancelled, cancelledBy>>
  /\ UNCHANGED <<closeVars, tickerVars, connVars, watchers>>

\* Session.Cancel() called by the routing layer: the whole critical section.
ExplicitCancel ==
  /\ MutexFree
  /\ closed' = CancelBody(closed).closed
  /\ tmCancelled' = (tmCancelled \/ CancelBody(closed).cancel)
  /\ cancelledBy' = FirstCanceller("explicit")
  /\ UNCHANGED <<Persistent, closedLock, connections, ccClosed, scClosed, groupDone>>
  /\ UNCHANGED <<closeVars, tickerVars, connVars, watchers>>

(* ---- the closing watcher: Session.Run, first task ---- *)

\* select: case <-group.Ctx().Done()
CloseSelectParent ==
  /\ closePc = "select"
  /\ groupDone
  /\ closePc' = "cancel"
  /\ UNCHANGED <<sessionVars, waitErr, closeRet, released, sessionClosedEv>>
  /\ UNCHANGED <<tickerVars, connVars, watchers>>

\* select: case <-session.taskManager.Ctx().Done()
CloseSelectOwn ==
  /\ closePc = "select"
  /\ TaskManagerDone
  /\ closePc' = "set"
  /\ UNCHANGED <<sessionVars, waitErr, closeRet, released, sessionClosedEv>>
  /\ UNCHANGED <<tickerVars, connVars, watchers>>

\* session.Cancel() of the parent branch
CloseCancel ==
  /\ closePc = "cancel"
  /\ MutexFree
  /\ closed' = CancelBody(closed).closed
  /\ tmCancelled' = (tmCancelled \/ CancelBody(closed).cancel)
  /\ cancelledBy' = FirstCanceller("parent")
  /\ closePc' = "set"
  /\ UNCHANGED <<Persistent, closedLock, connections, ccClosed, scClosed, groupDone>>
  /\ UNCHANGED <<waitErr, closeRet, released, sessionClosedEv>>
  /\ UNCHANGED <<tickerVars, connVars, watchers>>

\* Mutant of CloseSetClosed: the reservation is released before the join.
CloseSetClosedReleases ==
  /\ closePc = "set"
  /\ MutexFree
  /\ closed' = TRUE
  /\ released' = released + 1
  /\ closePc' = "wait"
  /\ UNCHANGED <<Persistent, closedLock, connections, ccClosed, scClosed,
                 tmCancelled, cancelledBy, groupDone>>
  /\ UNCHANGED <<waitErr, closeRet, sessionClosedEv>>
  /\ UNCHANGED <<tickerVars, connVars, watchers>>

\* session.closed.Set(true)
CloseSetClosed ==
  /\ closePc = "set"
  /\ MutexFree
  /\ closed' = TRUE
  /\ closePc' = "wait"
  /\ UNCHANGED <<Persistent, closedLock, connections, ccClosed, scClosed,
                 tmCancelled, cancelledBy, groupDone>>
  /\ UNCHANGED <<waitErr, closeRet, released, sessionClosedEv>>
  /\ UNCHANGED <<tickerVars, connVars, watchers>>

\* Mutant of CloseWait: the closing watcher does not join the watcher tasks.
CloseWaitNoJoin ==
  /\ closePc = "wait"
  /\ waitErr' \in (IF watchers = <<>> THEN {"nil"} ELSE {"nil", "err"})
  /\ closePc' = "closeChanged"
  /\ UNCHANGED <<sessionVars, closeRet, released, sessionClosedEv>>
  /\ UNCHANGED <<tickerVars, connVars, watchers>>

\* err := session.taskManager.Wait(); the watcher tasks return nil, so an
\* error can only come from the work a started Connection runs in the group.
CloseWait ==
  /\ closePc = "wait"
  /\ WaitMayReturn
  /\ waitErr' \in (IF watchers = <<>> THEN {"nil"} ELSE {"nil", "err"})
  /\ closePc' = "closeChanged"
  /\ UNCHANGED <<sessionVars, closeRet, released, sessionClosedEv>>
  /\ UNCHANGED <<tickerVars, connVars, watchers>>

\* close(session.connectionsChanged)
CloseConnectionsChanged ==
  /\ closePc = "closeChanged"
  /\ ccClosed' = TRUE
  /\ closePc' = "closeClosing"
  /\ UNCHANGED <<Persistent, closed, closedLock, connections, scClosed,
                 tmCancelled, cancelledBy, groupDone>>
  /\ UNCHANGED <<waitErr, closeRet, released, sessionClosedEv>>
  /\ UNCHANGED <<tickerVars, connVars, watchers>>

\* close(session.sessionClosing)
CloseSessionClosing ==
  /\ closePc = "closeClosing"
  /\ scClosed' = TRUE
  /\ closePc' = "release"
  /\ UNCHANGED <<Persistent, closed, closedLock, connections, ccClosed,
                 tmCancelled, cancelledBy, groupDone>>
  /\ UNCHANGED <<waitErr, closeRet, released, sessionClosedEv>>
  /\ UNCHANGED <<tickerVars, connVars, watchers>>

\* Mutant of CloseRelease: the reservation is released only after a clean join.
CloseReleaseIfNil ==
  /\ closePc = "release"
  /\ waitErr = "nil"
  /\ released' = released + 1
  /\ closePc' = "emit"
  /\ UNCHANGED <<sessionVars, waitErr, closeRet, sessionClosedEv>>
  /\ UNCHANGED <<tickerVars, connVars, watchers>>

\* session.gpus.Release()
CloseRelease ==
  /\ closePc = "release"
  /\ released' = released + 1
  /\ closePc' = "emit"
  /\ UNCHANGED <<sessionVars, waitErr, closeRet, sessionClosedEv>>
  /\ UNCHANGED <<tickerVars, connVars, watchers>>

\* session.eventListener.SessionClosed(session.Id); return err
CloseEmit ==
  /\ closePc = "emit"
  /\ sessionClosedEv' = sessionClosedEv + 1
  /\ closeRet' = waitErr
  /\ closePc' = "done"
  /\ UNCHANGED <<sessionVars, waitErr, released>>
  /\ UNCHANGED <<tickerVars, connVars, watchers>>

(* ---- the idle ticker: Session.Run, second task (non-persistent only) ---- *)

\* The runtime delivers a tick to ticker.C (a channel of capacity 1) when the
\* period has elapsed; elapsed time is not measured, a period may end at any time.
TimerFire ==
  /\ tickerArmed
  /\ ~tickerC
  /\ tickerC' = TRUE
  /\ tickStale' = FALSE
  /\ UNCHANGED <<sessionVars, closeVars, tickerPc, tickerArmed, connVars, watchers>>

\* Mutant of TickerSelectClosing: the ticker cleans up too when it sees the
\* session closing and releases the reservation a second time.
TickerSelectClosingReleases ==
  /\ tickerPc = "select"
  /\ scClosed
  /\ tickerPc' = "done"
  /\ tickerArmed' = FALSE
  /\ tickerC' \in TickAfterStop(tickerC)
  /\ tickStale' = tickerC'
  /\ released' = released + 1
  /\ UNCHANGED <<sessionVars, closePc, waitErr, closeRet, sessionClosedEv,
                 connVars, watchers>>

\* select: case <-session.sessionClosing: done = true; the loop ends, the
\* deferred ticker.Stop() runs and the task returns.
TickerSelectClosing ==
  /\ tickerPc = "select"
  /\ scClosed
  /\ tickerPc' = "done"
  /\ tickerArmed' = FALSE
  /\ tickerC' \in TickAfterStop(tickerC)
  /\ tickStale' = tickerC'
  /\ UNCHANGED <<sessionVars, closeVars, connVars, watchers>>

\* Mutant of TickerSelectTick: the tick is received and ignored.
TickerSelectTickDrops ==
  /\ tickerPc = "select"
  /\ tickerC
  /\ tickerC' = FALSE
  /\ tickStale' = FALSE
  /\ UNCHANGED <<sessionVars, closeVars, tickerPc, tickerArmed, connVars, watchers>>

\* select: case <-ticker.C
TickerSelectTick ==
  /\ tickerPc = "select"
  /\ tickerC
  /\ tickerC' = FALSE
  /\ tickStale' = FALSE
  /\ tickerPc' = "cancel"
  /\ UNCHANGED <<sessionVars, closeVars, tickerArmed, connVars, watchers>>

\* session.Cancel() of the tick branch
TickerCancel ==
  /\ tickerPc = "cancel"
  /\ MutexFree
  /\ closed' = CancelBody(closed).closed
  /\ tmCancelled' = (tmCancelled \/ CancelBody(closed).cancel)
  /\ cancelledBy' = FirstCanceller("idle")
  /\ tickerPc' = "select"
  /\ UNCHANGED <<Persistent, closedLock, connections, ccClosed, scClosed, groupDone>>
  /\ UNCHANGED <<closeVars, tickerArmed, tickerC, tickStale, connVars, watchers>>

\* select: case <-session.connectionsChanged, the value sent by addConnection
\* at the end of Connect's insertion (session.connectionsChanged <- struct{}{}).
TickerRecvConnect(p) ==
  /\ tickerPc = "select"
  /\ ~ccClosed
  /\ connPc[p] = "send"
  /\ tickerPc' = "changed"
  /\ connPc' = [connPc EXCEPT ![p] = "created"]
  /\ UNCHANGED <<sessionVars, closeVars, tickerArmed, tickerC, tickStale, connArg, connAt,
                 connRes, calls, lateSpawn, watchers>>

\* select: case <-session.connectionsChanged, the value sent by a connection
\* watcher after its session.connections.Delete.
TickerRecvWatcher(i) ==
  /\ tickerPc = "select"
  /\ ~ccClosed
  /\ watchers[i].pc = "send"
  /\ tickerPc' = "changed"
  /\ watchers' = [watchers EXCEPT ![i].pc = "emit"]
  /\ UNCHANGED <<sessionVars, closeVars, tickerArmed, tickerC, tickStale, connVars>>

\* select: case <-session.connectionsChanged on the closed channel
TickerRecvClosed ==
  /\ tickerPc = "select"
  /\ ccClosed
  /\ tickerPc' = "changed"
  /\ UNCHANGED <<sessionVars, closeVars, tickerArmed, tickerC, tickStale, connVars, watchers>>

\* Mutant of TickerChanged: the test of Empty() is inverted.
TickerChangedInverted ==
  /\ tickerPc = "changed"
  /\ tickerArmed' = (connections # {})
  /\ tickerC' \in TickAfterStop(tickerC)
  /\ tickStale' = tickerC'
  /\ tickerPc' = "select"
  /\ UNCHANGED <<sessionVars, closeVars, connVars, watchers>>

\* if session.connections.Empty() { ticker.Reset(30 * time.Second) }
\* else { ticker.Stop() }
TickerChanged ==
  /\ tickerPc = "changed"
  /\ tickerArmed' = (connections = {})
  /\ tickerC' \in TickAfterStop(tickerC)
  /\ tickStale' = tickerC'
  /\ tickerPc' = "select"
  /\ UNCHANGED <<sessionVars, closeVars, connVars, watchers>>

(* ---- Session.Connect and addConnection: one process per caller ---- *)

\* The caller returns from Connect with result r.
Return(p, r) ==
  /\ connPc' = [connPc EXCEPT ![p] = "ret"]
  /\ connRes' = [connRes EXCEPT ![p] = r]
  /\ connArg' = [connArg EXCEPT ![p] = NoConn]
  /\ connAt' = [connAt EXCEPT ![p] = FALSE]

\* The callers are interchangeable goroutines of the routing layer: a call is
\* served by the first caller that has no call in flight.
FreeCaller(p) ==
  /\ connPc[p] \in {"idle", "ret"}
  /\ \A i \in 1..Len(ProcOrder) :
       ProcOrder[i] = p =>
         \A j \in 1..(i - 1) : connPc[ProcOrder[j]] \notin {"idle", "ret"}

\* The identifiers the session has seen and still knows of.
KnownIds ==
  {watchers[i].id : i \in 1..Len(watchers)} \cup {connArg[p] : p \in Procs}

\* Identifiers the session has not seen are interchangeable: a call names an
\* identifier the session knows of, or the first one it does not.
NextId(c) ==
  \/ c \in KnownIds
  \/ \A i \in 1..Len(ConnOrder) :
       ConnOrder[i] = c => \A j \in 1..(i - 1) : ConnOrder[j] \in KnownIds

\* The routing layer calls session.Connect(connectionData, c).
ConnectCall(p, c) ==
  /\ FreeCaller(p)
  /\ NextId(c)
  /\ calls < MaxCalls
  /\ calls' = calls + 1
  /\ connPc' = [connPc EXCEPT ![p] = "lock"]
  /\ connArg' = [connArg EXCEPT ![p] = c]
  /\ connAt' = [connAt EXCEPT ![p] = tmCancelled]
  /\ connRes' = [connRes EXCEPT ![p] = "none"]
  /\ UNCHANGED <<sessionVars, closeVars, tickerVars, watchers, lateSpawn>>

\* Mutant of ConnectEnter: the flag is read without holding the mutex over
\* the rest of Connect.
ConnectEnterUnlocked(p) ==
  /\ connPc[p] = "lock"
  /\ MutexFree
  /\ IF ConnectRejects(closed)
       THEN /\ Return(p, "ErrClosed")
       ELSE /\ connPc' = [connPc EXCEPT ![p] = "get"]
            /\ UNCHANGED <<connRes, connArg, connAt>>
  /\ UNCHANGED <<Persistent, closed, closedLock, connections, ccClosed, scClosed,
                 tmCancelled, cancelledBy, groupDone>>
  /\ UNCHANGED <<closeVars, tickerVars, calls, lateSpawn, watchers>>

\* utilities.WithReturn(session.closed, ...): the caller takes the mutex and
\* tests the flag; when it is set the call returns ErrClosed at once.
ConnectEnter(p) ==
  /\ connPc[p] = "lock"
  /\ MutexFree
  /\ IF ConnectRejects(closed)
       THEN /\ Return(p, "ErrClosed")
            /\ UNCHANGED closedLock
       ELSE /\ connPc' = [connPc EXCEPT ![p] = "get"]
            /\ closedLock' = p
            /\ UNCHANGED <<connRes, connArg, connAt>>
  /\ UNCHANGED <<Persistent, closed, connections, ccClosed, scClosed, tmCancelled, cancelledBy,
                 groupDone>>
  /\ UNCHANGED <<closeVars, tickerVars, calls, lateSpawn, watchers>>

\* connection, found := session.connections.Get(connectionData.Id): found
ConnectFound(p) ==
  /\ connPc[p] = "get"
  /\ connArg[p] \in connections
  /\ connPc' = [connPc EXCEPT ![p] = "attach"]
  /\ UNCHANGED <<sessionVars, closeVars, tickerVars, connArg, connAt, connRes,
                 calls, lateSpawn, watchers>>

\* Mutant of ConnectStartFail: the connection is registered before Start's
\* result is examined.
ConnectStartFailRegisters(p) ==
  /\ connPc[p] = "get"
  /\ connArg[p] \notin connections
  /\ connections' = connections \cup {connArg[p]}
  /\ Return(p, "StartErr")
  /\ closedLock' = NoProc
  /\ UNCHANGED <<Persistent, closed, ccClosed, scClosed, tmCancelled, cancelledBy,
                 groupDone>>
  /\ UNCHANGED <<closeVars, tickerVars, calls, lateSpawn, watchers>>

\* not found; addConnection: connection.Start(session.taskManager, exitCodeCh)
\* fails; Connect wraps and returns the error, the mutex is freed
ConnectStartFail(p) ==
  /\ connPc[p] = "get"
  /\ connArg[p] \notin connections
  /\ Return(p, "StartErr")
  /\ closedLock' = NoProc
  /\ UNCHANGED <<Persistent, closed, connections, ccClosed, scClosed, tmCancelled, cancelledBy,
                 groupDone>>
  /\ UNCHANGED <<closeVars, tickerVars, calls, lateSpawn, watchers>>

\* Mutant of ConnectSpawn: addConnection runs whether or not Get found the
\* identifier.
ConnectSpawnAlways(p) ==
  /\ connPc[p] = "get"
  /\ watchers' = Append(watchers, [id |-> connArg[p], pc |-> "recv", code |-> 0,
                                   createdEv |-> 0, closedEv |-> 0])
  /\ lateSpawn' = (lateSpawn \/ TaskManagerDone)
  /\ connPc' = [connPc EXCEPT ![p] = "set"]
  /\ UNCHANGED <<sessionVars, closeVars, tickerVars, connArg, connAt, connRes,
                 calls>>

\* not found; addConnection: connection.Start returns nil and
\* session.taskManager.GoFn(..connection watcher..) spawns the watcher
ConnectSpawn(p) ==
  /\ connPc[p] = "get"
  /\ connArg[p] \notin connections
  /\ watchers' = Append(watchers, [id |-> connArg[p], pc |-> "recv", code |-> 0,
                                   createdEv |-> 0, closedEv |-> 0])
  /\ lateSpawn' = (lateSpawn \/ TaskManagerDone)
  /\ connPc' = [connPc EXCEPT ![p] = "set"]
  /\ UNCHANGED <<sessionVars, closeVars, tickerVars, connArg, connAt, connRes,
                 calls>>

\* addConnection: session.connections.Set(connection.Id, connection)
ConnectSet(p) ==
  /\ connPc[p] = "set"
  /\ connections' = connections \cup {connArg[p]}
  /\ connPc' = [connPc EXCEPT ![p] = "send"]
  /\ UNCHANGED <<Persistent, closed, closedLock, ccClosed, scClosed, tmCancelled, cancelledBy,
                 groupDone>>
  /\ UNCHANGED <<closeVars, tickerVars, connArg, connAt, connRes, calls, lateSpawn,
                 watchers>>

\* addConnection: session.eventListener.ConnectionCreated(...); the watcher
\* of the connection is the one this call appended, the mutex being held.
ConnectCreated(p) ==
  /\ connPc[p] = "created"
  /\ watchers' = [watchers EXCEPT ![Len(watchers)].createdEv = @ + 1]
  /\ connPc' = [connPc EXCEPT ![p] = "attach"]
  /\ UNCHANGED <<sessionVars, closeVars, tickerVars, connArg, connAt, connRes,
                 calls, lateSpawn>>

\* return connection.Connect(c): the caller returns what the attach returned
\* (nil or its error), the mutex is freed
ConnectAttach(p) ==
  /\ connPc[p] = "attach"
  /\ Return(p, "attach")
  /\ closedLock' = NoProc
  /\ UNCHANGED <<Persistent, closed, connections, ccClosed, scClosed, tmCancelled, cancelledBy,
                 groupDone>>
  /\ UNCHANGED <<closeVars, tickerVars, calls, lateSpawn, watchers>>

(* ---- the connection watcher task spawned by addConnection ---- *)

\* exitCode, ok := <-exitCodeCh; close(exitCodeCh): the Connection terminates
\* and hands its exit status to its watcher, which runs
\* session.connections.Delete(connection.Id).
WatcherExit(i, code) ==
  /\ watchers[i].pc = "recv"
  /\ connections' = connections \ {watchers[i].id}
  /\ watchers' = [watchers EXCEPT ![i].pc = "send", ![i].code = code]
  /\ UNCHANGED <<Persistent, closed, closedLock, ccClosed, scClosed, tmCancelled, cancelledBy,
                 groupDone>>
  /\ UNCHANGED <<closeVars, tickerVars, connVars>>

\* session.eventListener.ConnectionClosed(..., exitCode); return nil
WatcherEmit(i) ==
  /\ watchers[i].pc = "emit"
  /\ watchers' = [watchers EXCEPT ![i].pc = "done", ![i].closedEv = @ + 1]
  /\ UNCHANGED <<sessionVars, closeVars, tickerVars, connVars>>

(* ---- the specifications ---- *)

CloseStep ==
  \/ CloseSelectParent
  \/ CloseSelectOwn
  \/ CloseCancel
  \/ CloseSetClosed
  \/ CloseWait
  \/ CloseConnectionsChanged
  \/ CloseSessionClosing
  \/ CloseRelease
  \/ CloseEmit

Next ==
  \/ ParentCancel
  \/ ExplicitCancel
  \/ CloseStep
  \/ TimerFire
  \/ TickerSelectClosing
  \/ TickerSelectTick
  \/ TickerCancel
  \/ \E p \in Procs : TickerRecvConnect(p)
  \/ \E i \in 1..Len(watchers) : TickerRecvWatcher(i)
  \/ TickerRecvClosed
  \/ TickerChanged
  \/ \E p \in Procs, c \in ConnIds : ConnectCall(p, c)
  \/ \E p \in Procs : ConnectEnter(p)
  \/ \E p \in Procs : ConnectFound(p)
  \/ \E p \in Procs : ConnectStartFail(p)
  \/ \E p \in Procs : ConnectSpawn(p)
  \/ \E p \in Procs : ConnectSet(p)
  \/ \E p \in Procs : ConnectCreated(p)
  \/ \E p \in Procs : ConnectAttach(p)
  \/ \E i \in 1..Len(watchers), code \in ExitCodes : WatcherExit(i, code)
  \/ \E i \in 1..Len(watchers) : WatcherEmit(i)

Spec == Init /\ [][Next]_vars

(* Fair scheduling: every task that can take a step eventually takes it, a   *)
(* select whose case is ready again and again eventually takes that case,   *)
(* every live connection terminates. The parent scope, the routing layer    *)
(* and the timer are under no obligation.                                   *)
Fairness ==
  /\ WF_vars(CloseStep)
  /\ WF_vars(TickerCancel)
  /\ WF_vars(TickerChanged)
  /\ SF_vars(TickerSelectClosing)
  /\ \A p \in Procs :
       /\ SF_vars(TickerRecvConnect(p))
       /\ WF_vars(ConnectEnter(p))
       /\ WF_vars(ConnectFound(p) \/ ConnectStartFail(p) \/ ConnectSpawn(p))
       /\ WF_vars(ConnectSet(p))
       /\ WF_vars(ConnectCreated(p))
       /\ WF_vars(ConnectAttach(p))
  /\ \A i \in 1..MaxCalls :
       /\ SF_vars(i <= Len(watchers) /\ TickerRecvWatcher(i))
       /\ WF_vars(i <= Len(watchers) /\ \E code \in ExitCodes : WatcherExit(i, code))
       /\ WF_vars(i <= Len(watchers) /\ WatcherEmit(i))

FairSpec == Spec /\ Fairness

(* The timer in real time: a ticker that stays armed delivers its tick when   *)
(* the period has elapsed, and a select that finds a tick in ticker.C again  *)
(* and again eventually takes it.                                           *)
TimerFairness ==
  /\ WF_vars(TimerFire)
  /\ SF_vars(TickerSelectTick)

(* The session in real time: the timer runs and the two tasks of Run take    *)
(* the steps they can take; Connect callers and connection watchers are     *)
(* under no obligation.                                                     *)
TimedSpec ==
  Spec /\ WF_vars(CloseStep) /\ WF_vars(TickerCancel) /\ TimerFairness

(* ======================= the claims ======================= *)

\* C1: under any interleaving of parent cancellation, timer ticks and Cancel()
\* calls, gpus.Release() runs at most once and SessionClosed is emitted at
\* most once.
C1_ReleaseAtMostOnce == released <= 1 /\ sessionClosedEv <= 1

\* C1 witness: teardown has completed after the parent scope's cancellation
\* and a Cancel() of the session both happened.
C1_Witness ==
  /\ groupDone /\ tmCancelled
  /\ released = 1 /\ sessionClosedEv = 1

\* C2 (as claimed): once a cancellation trigger has occurred, teardown
\* eventually completes: the flag is set, the reservation released and
\* SessionClosed emitted.
C2_CancelLeadsToTeardown ==
  (groupDone \/ tmCancelled \/ tickerPc = "cancel")
    ~> (closed /\ released = 1 /\ sessionClosedEv = 1)

\* C3: the teardown steps happen in order: the flag is set before Wait()
\* starts, Wait() has returned before the release, the release precedes the
\* SessionClosed event.
C3_TeardownOrder ==
  /\ closePc \in {"wait", "closeChanged", "closeClosing", "release", "emit", "done"}
       => closed
  /\ waitErr # "none" => closed
  /\ released > 0 => waitErr # "none"
  /\ sessionClosedEv > 0 => released > 0

\* C3 witness: the whole sequence has run.
C3_Witness == closed /\ waitErr # "none" /\ released = 1 /\ sessionClosedEv = 1

\* C4: once Wait() has returned, and so once the reservation is released,
\* every watcher task spawned by addConnection has returned.
C4_JoinBeforeRelease ==
  (waitErr # "none" \/ released > 0) => RunningWatchers = {}

\* C4 witness: the reservation is released after a Connect spawned a watcher
\* when the task manager was already done.
C4_Witness == released > 0 /\ lateSpawn

\* A Connect call is inside the part of Connect that the flag guards.
InsideConnect(p) == connPc[p] \in {"get", "set", "send", "created", "attach"}

\* C5: while the flag is true no Connect call is past the test of the flag,
\* and a call that tests it returns ErrClosed in that step, which changes
\* neither the map nor the watchers nor the events they carry.
C5_ClosedRejectsConnect ==
  /\ [](closed => \A p \in Procs : ~InsideConnect(p))
  /\ [][\A p \in Procs :
          (closed /\ connPc[p] = "lock" /\ connPc'[p] # "lock")
             => /\ connPc'[p] = "ret"
                /\ connRes'[p] = "ErrClosed"
                /\ connections' = connections
                /\ watchers' = watchers]_vars

\* C5 witness: a call has returned ErrClosed from a closed session.
C5_Witness == closed /\ \E p \in Procs : connPc[p] = "ret" /\ connRes[p] = "ErrClosed"

\* C6 (as claimed): a Connect call that starts after the task group was
\* cancelled never gets past the test of the flag: it waits for the mutex and
\* then returns ErrClosed.
C6_ClosingRejectsConnect ==
  \A p \in Procs : connAt[p] => connPc[p] = "lock"

\* C7: the closed flag never goes back from true to false.
C7_ClosedMonotonic == [][closed => closed']_vars

\* C7 witness: the flag is set and the session has seen Connect calls, a
\* Cancel() and the parent's cancellation.
C7_Witness == closed /\ tmCancelled /\ groupDone /\ calls > 0

\* C8 (as claimed): the ticker takes a tick, and so invokes Cancel(), only
\* when the session is non-persistent and the connection map is empty.
C8_TickOnlyWhenIdle ==
  [][(tickerPc = "select" /\ tickerPc' = "cancel")
       => (~Persistent /\ connections = {})]_vars

\* C9 (as claimed): in every state of an open session the timer is armed if
\* and only if the session is non-persistent and the map is empty.
C9_ArmedIffIdle ==
  ~closed => (tickerArmed <=> (~Persistent /\ connections = {}))

\* No connections-changed signal is waiting to be received and the ticker, if
\* any, is not evaluating one.
TickerSettled ==
  /\ tickerPc \in {"absent", "select", "cancel"}
  /\ \A p \in Procs : connPc[p] # "send"
  /\ \A i \in 1..Len(watchers) : watchers[i].pc # "send"

\* C9 (amended): in every state of an open session in which the ticker is
\* settled, the timer is armed if and only if the session is non-persistent
\* and the map is empty.
C9_ArmedIffIdleSettled ==
  (~closed /\ TickerSettled) => (tickerArmed <=> (~Persistent /\ connections = {}))

\* C9 witness: an open non-persistent session, settled, with a connection in
\* the map and the timer stopped.
C9_Witness ==
  ~closed /\ TickerSettled /\ ~Persistent /\ connections # {} /\ ~tickerArmed

\* C10 (as claimed, its last part): once every created connection has
\* terminated and every insertion has been made, the map is empty.
C10_AllTerminatedMapEmpty ==
  ( /\ watchers # <<>>
    /\ \A i \in 1..Len(watchers) : watchers[i].pc # "recv"
    /\ \A p \in Procs : connPc[p] # "set" )
  => connections = {}

\* C11 (as claimed): a Connect call that holds exclusive access to the flag,
\* whose Start and attach return, returns to its caller; it never waits for
\* ever in its send on connectionsChanged.
C11_ConnectReturns ==
  \A p \in Procs : InsideConnect(p) ~> (connPc[p] = "ret")

\* C12: a non-persistent session on which Connect is never called and which
\* is cancelled neither by the routing layer nor by the parent scope is
\* eventually closed by the idle ticker: the flag is set, the reservation is
\* released once and SessionClosed is emitted once, and it stays so.
C12_IdleAutoClose ==
  (~Persistent /\ [](calls = 0 /\ ~groupDone /\ cancelledBy # "explicit"))
    => <>[](/\ closed
            /\ cancelledBy = "idle"
            /\ released = 1
            /\ sessionClosedEv = 1)

\* C12 witness: a session that saw no Connect call and no cancellation of the
\* parent scope was cancelled by the idle ticker and has been torn down.
C12_Witness ==
  /\ ~Persistent /\ calls = 0 /\ ~groupDone
  /\ cancelledBy = "idle"
  /\ closed /\ released = 1 /\ sessionClosedEv = 1

\* C13 (as claimed): when connections were added and all removed again, no
\* Connect call being in progress, and the ticker has reset the timer, the
\* idle path calls Cancel() only on a tick of the new period: the tick the
\* select takes is never one that was delivered before the Reset.
C13_RearmFullPeriod ==
  [][( /\ tickerPc = "select" /\ tickerPc' = "cancel"
       /\ tickerArmed /\ ~ccClosed
       /\ watchers # <<>> /\ connections = {}
       /\ \A p \in Procs : ~InsideConnect(p) )
       => ~tickStale]_vars

\* C14: the step in which a Connect call learns that Start failed returns the
\* error to the caller and leaves no partial state: the map is unchanged, no
\* watcher is spawned and no event recorded, and no connections-changed
\* signal is offered or received.
C14_StartFailureLeavesNothing ==
  [][\A p \in Procs :
       (connPc[p] = "get" /\ connRes'[p] = "StartErr")
          => /\ connPc'[p] = "ret"
             /\ connections' = connections
             /\ watchers' = watchers
             /\ \A q \in Procs : connPc'[q] = "send" => connPc[q] = "send"
             /\ tickerPc' = tickerPc]_vars

\* C14 witness: a call returned Start's error from a session that has no
\* connection, no watcher and no signal outstanding.
C14_Witness ==
  /\ \E p \in Procs : connPc[p] = "ret" /\ connRes[p] = "StartErr"
  /\ connections = {} /\ watchers = <<>>
  /\ \A q \in Procs : connPc[q] # "send"

LiveConnections(c) ==
  {i \in 1..Len(watchers) : watchers[i].id = c /\ watchers[i].pc = "recv"}

\* C16 (as claimed, its first part): while an identifier is in the map at
\* most one watcher task of that identifier exists.
C16_OneWatcherTask ==
  \A c \in ConnIds :
    c \in connections
      => Cardinality({i \in RunningWatchers : watchers[i].id = c}) <= 1

\* C16 (amended): find-or-create is atomic per identifier. While an identifier is in
\* the map at most one Connection of that identifier is live, with one
\* watcher and at most one ConnectionCreated event; and a Connect call whose
\* Get finds the identifier goes straight to the attach and returns, changing
\* neither the map nor the watchers nor their events and handing no
\* connections-changed signal to the ticker.
C16_FindOrCreateAtomic ==
  /\ [](\A c \in ConnIds :
          c \in connections => Cardinality(LiveConnections(c)) <= 1)
  /\ [](\A i \in 1..Len(watchers) : watchers[i].createdEv <= 1)
  /\ [][\A p \in Procs :
          (connPc[p] = "get" /\ connArg[p] \in connections /\ connPc'[p] # "get")
             => /\ connPc'[p] = "attach"
                /\ connections' = connections
                /\ watchers' = watchers
                /\ tickerPc' = tickerPc]_vars
  /\ [][\A p \in Procs :
          (connPc[p] = "attach" /\ connPc'[p] # "attach")
             => /\ connPc'[p] = "ret"
                /\ connections' = connections
                /\ watchers' = watchers
                /\ tickerPc' = tickerPc]_vars

\* C16 witness: two calls named the same identifier; the first created the
\* Connection and returned, the second found it and is about to attach, and
\* the session has the one live Connection and the one watcher.
C16_Witness ==
  \E p, q \in Procs :
    /\ p # q
    /\ connPc[p] = "ret" /\ connRes[p] = "attach"
    /\ connPc[q] = "attach" /\ connArg[q] \in connections
    /\ Len(watchers) = 1
    /\ watchers[1].id = connArg[q] /\ watchers[1].pc = "recv"

\* C17: an error from Wait() does not gate the release. After Wait() has
\* returned, whatever it returned, every remaining step of the closing
\* watcher (the two close() calls, Release(), SessionClosed, return) can be
\* taken at once, none waits for anything; and when the closing watcher has
\* returned, the release and the event have happened once each and its
\* result is exactly what Wait() returned.
C17_WaitErrorDoesNotGate ==
  /\ [](closePc \in {"closeChanged", "closeClosing", "release", "emit"}
          => (waitErr # "none" /\ ENABLED CloseStep))
  /\ [](closePc = "done"
          => (closeRet = waitErr /\ released = 1 /\ sessionClosedEv = 1))

\* C17 witness: the closing watcher returned the error of Wait() after the
\* release and the SessionClosed event.
C17_Witness ==
  /\ waitErr = "err" /\ closePc = "done" /\ closeRet = "err"
  /\ released = 1 /\ sessionClosedEv = 1

\* C18 (as claimed): in a non-persistent session there is no state in which
\* a Connect call holds the mutex of the flag while it waits in its send on
\* connectionsChanged and the idle ticker, having taken a tick, waits in
\* Cancel() for that mutex.
C18_NoTickerConnectDeadlock ==
  ~( /\ ~Persistent
     /\ tickerPc = "cancel"
     /\ \E p \in Procs : connPc[p] = "send" /\ closedLock = p )

\* C19 (as claimed): for every connection ConnectionCreated precedes
\* ConnectionClosed, and the watcher has not received the exit status (and so
\* not removed the connection) while addConnection has yet to insert it.
C19_CreatedBeforeClosed ==
  /\ \A i \in 1..Len(watchers) :
       watchers[i].closedEv > 0 => watchers[i].createdEv > 0
  /\ \A p \in Procs :
       connPc[p] = "set" => watchers[Len(watchers)].pc = "recv"

\* C20: once connectionsChanged is closed no Connect call is past the test of
\* the flag, so none is inside addConnection, and no connection watcher is
\* before or at its send on connectionsChanged.
C20_NoSendAfterClose ==
  ccClosed =>
    /\ \A p \in Procs : ~InsideConnect(p)
    /\ \A i \in 1..Len(watchers) : watchers[i].pc \notin {"recv", "send"}

\* C20 witness: the channel is closed in a session that created connections,
\* one of them after the task manager was done.
C20_Witness == ccClosed /\ watchers # <<>> /\ lateSpawn

====
